---- MODULE Spec2Model ----
(***************************************************************************)
(* GC Content Analyzer: the Streamlit app (app.py) and the backend module  *)
(* (gc_content.py).  Text is a sequence of one-character strings, floats   *)
(* are exact rationals <<numerator, denominator>>.                         *)
(***************************************************************************)
EXTENDS Integers, Sequences, FiniteSets, TLC

VARIABLES
    seq_input,          \* st.session_state.seq_input
    sequences,          \* st.session_state.sequences: <<name, bases>> pairs
    uploaded_file_name, \* st.session_state.uploaded_file_name (None or a name)
    clear_flag,         \* st.session_state.clear_flag
    file_uploader_key,  \* st.session_state.file_uploader_key
    current_option,     \* st.session_state.current_option
    uploaded_file,      \* the file held by the file_uploader widget: {} or {f}
    messages,           \* error/warning elements written by the last run
    page,               \* what the main area shows after the last run
    last_event,         \* the UI event the last run served
    pc, arg, ret        \* a call of a library function: position, input, result

vars == <<seq_input, sequences, uploaded_file_name, clear_flag, file_uploader_key,
          current_option, uploaded_file, messages, page, last_event, pc, arg, ret>>

appVars == <<seq_input, sequences, uploaded_file_name, clear_flag, file_uploader_key,
             current_option, uploaded_file, messages, page, last_event>>

libVars == <<pc, arg, ret>>

(***************************************************************************)
(* Bounds of the model.                                                    *)
(***************************************************************************)
MaxSeqLen == 4      \* longest DNA string handed to gc_content on its own
MaxLines == 4       \* most lines of a text handed to a parser on its own
MaxFrags == 2       \* most fragments of a text typed or uploaded in the app
MaxKey == 3         \* file_uploader_key stops growing here
MaxPieces == 3      \* most comma-separated pieces of a text submitted on its own
MaxRecords == 3     \* most valid records handed to the results section on its own

(***************************************************************************)
(* Python's str and list operations, as far as the program uses them.      *)
(***************************************************************************)
None == "None"

\* str.isspace() for the characters of the model's alphabet
Whitespace == {" ", "\t", "\n"}

\* the code's "ATGC" (base in "ATGC")
ATGC == {"A", "T", "G", "C"}

\* str.upper(), one character
UpperChar(c) ==
    CASE c = "a" -> "A"
      [] c = "t" -> "T"
      [] c = "g" -> "G"
      [] c = "c" -> "C"
      [] c = "s" -> "S"
      [] c = "u" -> "U"
      [] c = "x" -> "X"
      [] c = "é" -> "É"
      [] OTHER -> c

\* str.upper()
upper(s) == [i \in 1..Len(s) |-> UpperChar(s[i])]

RECURSIVE lstrip(_)
\* str.lstrip()
lstrip(s) ==
    IF s # <<>> /\ Head(s) \in Whitespace THEN lstrip(Tail(s)) ELSE s

RECURSIVE rstrip(_)
\* str.rstrip()
rstrip(s) ==
    IF s # <<>> /\ s[Len(s)] \in Whitespace THEN rstrip(SubSeq(s, 1, Len(s) - 1)) ELSE s

\* str.strip()
strip(s) == rstrip(lstrip(s))

\* str.replace(c, "")
remove(s, c) == SelectSeq(s, LAMBDA d : d # c)

\* str.startswith(c)
startswith(s, c) == s # <<>> /\ Head(s) = c

RECURSIVE SplitFrom(_, _, _, _)
\* the pieces of s from position i on, cur being the piece under way
SplitFrom(s, sep, i, cur) ==
    IF i > Len(s) THEN <<cur>>
    ELSE IF s[i] = sep THEN <<cur>> \o SplitFrom(s, sep, i + 1, <<>>)
    ELSE SplitFrom(s, sep, i + 1, Append(cur, s[i]))

\* str.split(sep): one piece more than there are separators
split(s, sep) == SplitFrom(s, sep, 1, <<>>)

\* str.splitlines(): split at line breaks, no empty last line
splitlines(s) ==
    LET p == split(s, "\n")
    IN  IF p[Len(p)] = <<>> THEN SubSeq(p, 1, Len(p) - 1) ELSE p

RECURSIVE TakeWord(_)
\* the longest prefix of s without whitespace
TakeWord(s) ==
    IF s = <<>> \/ Head(s) \in Whitespace THEN <<>>
    ELSE <<Head(s)>> \o TakeWord(Tail(s))

\* str.split()[0]: the first whitespace-delimited word (s holds one)
FirstWord(s) == TakeWord(lstrip(s))

\* all(base in "ATGC" for base in seq)
all_ATGC(seq) == \A i \in 1..Len(seq) : seq[i] \in ATGC

RECURSIVE join(_)
\* "".join(parts)
join(parts) == IF parts = <<>> THEN <<>> ELSE Head(parts) \o join(Tail(parts))

RECURSIVE str(_)
\* str(n) for n >= 0: the decimal digits
str(n) ==
    LET digit == <<"0", "1", "2", "3", "4", "5", "6", "7", "8", "9">>[(n % 10) + 1]
    IN  IF n < 10 THEN <<digit>> ELSE Append(str(n \div 10), digit)

(***************************************************************************)
(* gc_content.py: gc_content                                               *)
(***************************************************************************)
RECURSIVE count(_, _)
\* str.count(c)
count(s, c) ==
    IF s = <<>> THEN 0 ELSE (IF Head(s) = c THEN 1 ELSE 0) + count(Tail(s), c)

RECURSIVE GCD(_, _)
GCD(a, b) == IF b = 0 THEN a ELSE GCD(b, a % b)

\* the rational n/d (d > 0) in lowest terms
Rat(n, d) == LET g == GCD(n, d) IN <<n \div g, d \div g>>

RatLe(p, q) == p[1] * q[2] <= q[1] * p[2]
RatAdd(p, q) == Rat(p[1] * q[2] + q[1] * p[2], p[2] * q[2])
RatDiv(p, k) == Rat(p[1], p[2] * k)

\* gc_content counting 'G' alone
gc_content_G_only(sequence) ==
    IF Len(sequence) > 0 THEN Rat(count(sequence, "G") * 100, Len(sequence)) ELSE Rat(0, 1)

\* (gc_count / len(sequence)) * 100 if len(sequence) > 0 else 0
gc_content(sequence) ==
    LET gc_count == count(sequence, "G") + count(sequence, "C")
    IN  IF Len(sequence) > 0 THEN Rat(gc_count * 100, Len(sequence)) ELSE Rat(0, 1)

RECURSIVE min(_)
min(vs) ==
    IF Len(vs) = 1 THEN vs[1]
    ELSE LET m == min(Tail(vs)) IN IF RatLe(vs[1], m) THEN vs[1] ELSE m

RECURSIVE max(_)
max(vs) ==
    IF Len(vs) = 1 THEN vs[1]
    ELSE LET m == max(Tail(vs)) IN IF RatLe(m, vs[1]) THEN vs[1] ELSE m

RECURSIVE sum(_)
sum(vs) == IF vs = <<>> THEN Rat(0, 1) ELSE RatAdd(vs[1], sum(Tail(vs)))

(***************************************************************************)
(* gc_content.py: read_sequences, main                                     *)
(***************************************************************************)
\* the record of a finished block: if current_seq: append((header, current_seq))
FlushSeq(header, current_seq) ==
    IF current_seq # <<>> THEN << <<header, current_seq>> >> ELSE <<>>

RECURSIVE ReadLoop(_, _, _, _)
\* the for loop of read_sequences from line i on, and the flush after it.
\* header None and header "" are both <<>>: main only tests its truth.
ReadLoop(lines, i, header, current_seq) ==
    IF i > Len(lines) THEN FlushSeq(header, current_seq)
    ELSE LET line == strip(lines[i])
         IN  IF line = <<>> THEN ReadLoop(lines, i + 1, header, current_seq)
             ELSE IF startswith(line, ">")
             THEN FlushSeq(header, current_seq) \o ReadLoop(lines, i + 1, Tail(line), <<>>)
             ELSE ReadLoop(lines, i + 1, header, current_seq \o upper(line))

\* the lines of the open file are its text split at line breaks
read_sequences(text) == ReadLoop(splitlines(text), 1, <<>>, <<>>)

\* f"{gc:.2f}": gc in hundredths, rounded half to even
Format2f(gc) ==
    LET q == (gc[1] * 100) \div gc[2]
        r == (gc[1] * 100) % gc[2]
    IN  IF 2 * r > gc[2] \/ (2 * r = gc[2] /\ q % 2 = 1) THEN q + 1 ELSE q

\* a line main prints
Printed(line, name) == [line |-> line, name |-> name]

WarningInvalid(name) ==
    Printed("Warning: Sequence {name} contains invalid characters.", name)

\* header or f"Sequence {i}"
NameOf(header, i) ==
    IF header # <<>> THEN header
    ELSE <<"S", "e", "q", "u", "e", "n", "c", "e", " ">> \o str(i)

RECURSIVE MainLoop(_, _)
\* for i, (header, seq) in enumerate(sequences, start=1): ...
MainLoop(seqs, i) ==
    IF i > Len(seqs) THEN [results |-> <<>>, printed |-> <<>>]
    ELSE LET header == seqs[i][1]
             seq == seqs[i][2]
             gc == gc_content(seq)
             name == NameOf(header, i)
             rest == MainLoop(seqs, i + 1)
         IN  [results |-> <<[name |-> name, length |-> Len(seq), gc |-> gc]>> \o rest.results,
              printed |-> (IF ~all_ATGC(seq) THEN <<WarningInvalid(name)>> ELSE <<>>)
                          \o <<Printed("{name}: Length={len(seq)}, GC%={gc:.2f}", name)>>
                          \o rest.printed]

\* nothing computed: main returned early
Returned(line) ==
    [printed |-> <<Printed(line, <<>>)>>, results |-> <<>>, csv |-> <<>>, summary |-> <<>>]

\* main(): args.input is a file that opens and reads ("ok"), is missing, or
\* fails otherwise; args.output is absent ("none"), writable or not
main(args) ==
    IF args.status = "missing" THEN Returned("Error: File '{args.input}' not found.")
    ELSE IF args.status = "unreadable" THEN Returned("Error while reading file: {e}")
    ELSE LET seqs == read_sequences(args.text)
             loop == MainLoop(seqs, 1)
             results == loop.results
             gc_values == [k \in 1..Len(results) |-> results[k].gc]
         IN  IF seqs = <<>> THEN Returned("No valid sequences found.")
             ELSE [printed |-> loop.printed
                       \o (IF args.output = "writable"
                            THEN <<Printed("Results saved to {args.output}", <<>>)>>
                            ELSE IF args.output = "unwritable"
                            THEN <<Printed("Error writing CSV: {e}", <<>>)>>
                            ELSE <<>>)
                       \o <<Printed("Summary Statistics:", <<>>)>>,
                   results |-> results,
                   csv |-> IF args.output = "writable"
                           THEN [k \in 1..Len(results) |->
                                    [name |-> results[k].name, length |-> results[k].length,
                                     gc |-> Format2f(results[k].gc)]]
                           ELSE <<>>,
                   summary |-> <<[min_gc |-> Format2f(min(gc_values)),
                                  max_gc |-> Format2f(max(gc_values)),
                                  avg_gc |-> Format2f(RatDiv(sum(gc_values), Len(gc_values)))]>>]

(***************************************************************************)
(* app.py: clean_header, parse_fasta                                       *)
(***************************************************************************)
\* what stands for an IndexError raised by header.split()[0]
IndexError == <<"IndexError">>

\* header.split()[0].strip(); a falsy header is returned as it is, and a
\* header of whitespace alone has no first word
clean_header(header) ==
    IF header = <<>> THEN header
    ELSE IF lstrip(header) = <<>> THEN IndexError
    ELSE strip(FirstWord(header))

\* Flush without the test for sequence lines
Flush_header_only(header, seq_lines) ==
    IF header # <<>>
    THEN <<<<clean_header(header), upper(join(seq_lines))>>>>
    ELSE <<>>

\* the record of a finished header block, if it has a header and lines
Flush(header, seq_lines) ==
    IF header # <<>> /\ seq_lines # <<>>
    THEN <<<<clean_header(header), upper(join(seq_lines))>>>>
    ELSE <<>>

RECURSIVE ParseLoop(_, _, _, _)
\* the for loop of parse_fasta from line i on, and the flush after it.
\* header None and header "" are both <<>>: the code only tests its truth.
ParseLoop(lines, i, header, seq_lines) ==
    IF i > Len(lines) THEN Flush(header, seq_lines)
    ELSE LET line == strip(lines[i])
         IN  IF line = <<>> THEN ParseLoop(lines, i + 1, header, seq_lines)
             ELSE IF startswith(line, ">")
             THEN Flush(header, seq_lines)
                  \o ParseLoop(lines, i + 1, strip(Tail(line)), <<>>)
             ELSE ParseLoop(lines, i + 1, header,
                            Append(seq_lines, remove(remove(line, " "), "\n")))

parse_fasta(text) == ParseLoop(splitlines(strip(text)), 1, <<>>, <<>>)

(***************************************************************************)
(* app.py: the results section (lines 221-307)                             *)
(***************************************************************************)
\* an element written to the page: st.error, st.warning or st.info
Message(kind, at, text, about) ==
    [kind |-> kind, at |-> at, text |-> text, about |-> about]

InfoBegin ==
    Message("info", "main", "Please paste a DNA sequence or upload a FASTA file", <<>>)

ErrorAllSkipped ==
    Message("error", "main", "All sequences contained invalid characters or were empty", <<>>)

RECURSIVE ResultRows(_)
\* the loop over sequences: a record with empty bases is skipped
ResultRows(seqs) ==
    IF seqs = <<>> THEN <<>>
    ELSE LET header == Head(seqs)[1]
             seq == Head(seqs)[2]
         IN  (IF seq = <<>> THEN <<>>
              ELSE <<[name |-> header, length |-> Len(seq), gc |-> gc_content(seq)]>>)
             \o ResultRows(Tail(seqs))

\* the page while there is nothing to analyse
AboutPage == [view |-> "about", results |-> <<>>, stats |-> <<>>, said |-> <<InfoBegin>>]

\* the page that reports zero rows
NoResultsPage ==
    [view |-> "no_results", results |-> <<>>, stats |-> <<>>, said |-> <<ErrorAllSkipped>>]

\* the summary with the average taken over one value too many
OverviewStats_off_by_one(gc_values) ==
    [min_gc |-> min(gc_values), max_gc |-> max(gc_values),
     avg_gc |-> RatDiv(sum(gc_values), Len(gc_values) + 1)]

\* the summary of the Overview tab: min(gc_values), max(gc_values), sum/len
OverviewStats(gc_values) ==
    [min_gc |-> min(gc_values), max_gc |-> max(gc_values),
     avg_gc |-> RatDiv(sum(gc_values), Len(gc_values))]

\* from "sequences = st.session_state.sequences" to the tabs
results_section(seqs, file_name) ==
    IF seqs = <<>> /\ file_name = None THEN AboutPage
    ELSE LET results == ResultRows(seqs)
             gc_values == [k \in 1..Len(results) |-> results[k].gc]
         IN  IF results = <<>> THEN NoResultsPage
             ELSE [view |-> "results", results |-> results,
                   stats |-> <<OverviewStats(gc_values)>>, said |-> <<>>]

(***************************************************************************)
(* app.py: submit_sequences (the Submit Sequences callback)                *)
(***************************************************************************)
InvalidInSequence(header) ==
    Message("error", "sidebar", "Invalid characters in sequence '{header}'", header)

InvalidInSequenceNo(i) ==
    Message("error", "sidebar", "Invalid characters in Sequence {i}", str(i))

SkippedInvalid(header) ==
    Message("warning", "input_container",
            "Sequence '{header}' skipped due to invalid characters", header)

NoValidInFile ==
    Message("error", "input_container",
            "No valid DNA sequences found in the uploaded file", <<>>)

ErrorProcessingFile ==
    Message("error", "input_container", "Error processing file: {e}", <<>>)

\* "Sequence_" + str(i)
SequenceName(i) == <<"S", "e", "q", "u", "e", "n", "c", "e", "_">> \o str(i)

\* the message of the elif branch of the validation loop at call site `site`
Report(site, i, header) ==
    CASE site = "submit_fasta" -> InvalidInSequence(header)
      [] site = "submit_list" -> InvalidInSequenceNo(i)
      [] site = "upload" -> SkippedInvalid(header)

\* the validation loop without the test of the bases: every record that has
\* bases is kept, none is reported
Validate_unchecked(recs, i, site) ==
    [valid_seqs |-> SelectSeq(recs, LAMBDA r : r[2] # <<>>),
     said |-> <<>>]

\* the validation loop that reports nothing
Validate_silent(recs, i, site) ==
    [valid_seqs |-> SelectSeq(recs, LAMBDA r : r[2] # <<>> /\ all_ATGC(r[2])),
     said |-> <<>>]

RECURSIVE Validate(_, _, _)
\* for ... in recs: if seq and all(base in "ATGC"): append; elif seq: report.
\* i is the loop's position, site the place of the loop in the code.
Validate(recs, i, site) ==
    IF i > Len(recs) THEN [valid_seqs |-> <<>>, said |-> <<>>]
    ELSE LET header == recs[i][1]
             seq == recs[i][2]
             rest == Validate(recs, i + 1, site)
         IN  IF seq # <<>> /\ all_ATGC(seq)
             THEN [rest EXCEPT !.valid_seqs = <<recs[i]>> \o @]
             ELSE IF seq # <<>>
             THEN [rest EXCEPT !.said = <<Report(site, i, header)>> \o @]
             ELSE rest

\* [seq.strip().replace(" ", "").replace("\n", "")
\*     for seq in text.split(",") if seq.strip()]
sequences_list(text) ==
    LET pieces == SelectSeq(split(text, ","), LAMBDA seq : strip(seq) # <<>>)
    IN  [k \in 1..Len(pieces) |-> remove(remove(strip(pieces[k]), " "), "\n")]

\* the records submit_sequences validates: parse_fasta's, or the numbered pieces
SubmittedRecords(input) ==
    LET text == upper(strip(input))
    IN  IF startswith(text, ">") THEN parse_fasta(text)
        ELSE LET list == sequences_list(text)
             IN  [i \in 1..Len(list) |-> <<SequenceName(i), list[i]>>]

\* the callback: what it leaves in the session state and what it writes
submit_sequences(input) ==
    LET text == upper(strip(input))
        recs == SubmittedRecords(input)
        v == IF startswith(text, ">")
             THEN Validate(recs, 1, "submit_fasta")
             ELSE Validate(recs, 1, "submit_list")
    IN  [sequences |-> v.valid_seqs, uploaded_file_name |-> None, said |-> v.said]

(***************************************************************************)
(* app.py: the file upload branch (lines 157-194)                          *)
(***************************************************************************)
\* code points of the model's alphabet
CodePoints ==
    { <<9, "\t">>, <<10, "\n">>, <<32, " ">>, <<44, ",">>, <<62, ">">>,
      <<65, "A">>, <<67, "C">>, <<71, "G">>, <<84, "T">>, <<88, "X">>,
      <<97, "a">>, <<99, "c">>, <<103, "g">>, <<115, "s">>, <<116, "t">>,
      <<117, "u">>, <<120, "x">>, <<233, "é">> }

chr(n) == (CHOOSE p \in CodePoints : p[1] = n)[2]
ord(c) == (CHOOSE p \in CodePoints : p[2] = c)[1]

\* what stands for a UnicodeDecodeError in a decoded text
UnicodeDecodeError == "UnicodeDecodeError"

RECURSIVE decode(_)
\* bytes.decode("utf-8") for one- and two-byte forms; a byte that starts no
\* such form or a missing continuation byte raises
decode(b) ==
    IF b = <<>> THEN <<>>
    ELSE IF b[1] < 128 THEN <<chr(b[1])>> \o decode(Tail(b))
    ELSE IF /\ b[1] >= 194 /\ b[1] <= 223
            /\ Len(b) >= 2 /\ b[2] >= 128 /\ b[2] <= 191
    THEN <<chr((b[1] - 192) * 64 + (b[2] - 128))>> \o decode(Tail(Tail(b)))
    ELSE <<UnicodeDecodeError>>

Raised(text) == \E i \in 1..Len(text) : text[i] = UnicodeDecodeError

\* the except branch that leaves the session state as it was
ProcessUpload_keeps_state(file, old) ==
    LET file_content == decode(file.bytes)
        v == Validate(parse_fasta(file_content), 1, "upload")
    IN  IF Raised(file_content)
        THEN [sequences |-> old.sequences, uploaded_file_name |-> old.uploaded_file_name,
              said |-> <<ErrorProcessingFile>>]
        ELSE [sequences |-> v.valid_seqs, uploaded_file_name |-> file.name,
              said |-> v.said \o (IF v.valid_seqs = <<>> THEN <<NoValidInFile>> ELSE <<>>)]

\* the try block and its except branch, uploaded_file not None; old is the
\* session state before (the code overwrites it on every path)
ProcessUpload(file, old) ==
    LET file_content == decode(file.bytes)
        v == Validate(parse_fasta(file_content), 1, "upload")
    IN  IF Raised(file_content)
        THEN [sequences |-> <<>>, uploaded_file_name |-> None,
              said |-> <<ErrorProcessingFile>>]
        ELSE [sequences |-> v.valid_seqs, uploaded_file_name |-> file.name,
              said |-> v.said \o (IF v.valid_seqs = <<>> THEN <<NoValidInFile>> ELSE <<>>)]

\* the branch for uploaded_file None: a file that was there has been removed
NoUpload(old) ==
    IF old.uploaded_file_name # None
    THEN [sequences |-> <<>>, uploaded_file_name |-> None, said |-> <<>>]
    ELSE [sequences |-> old.sequences, uploaded_file_name |-> old.uploaded_file_name,
          said |-> <<>>]

(***************************************************************************)
(* app.py: trigger_clear_sequences and one run of the script               *)
(***************************************************************************)
Upload == "Upload FASTA File"
Paste == "Paste Sequence Directly"

\* the session state as a record
SessionState ==
    [seq_input |-> seq_input, sequences |-> sequences,
     uploaded_file_name |-> uploaded_file_name, clear_flag |-> clear_flag,
     file_uploader_key |-> file_uploader_key, current_option |-> current_option]

\* the Clear Sequences callback
trigger_clear_sequences(ss) ==
    [ss EXCEPT !.seq_input = <<>>,
               !.sequences = <<>>,
               !.uploaded_file_name = None,
               !.clear_flag = TRUE,
               !.file_uploader_key = IF ss.current_option = Upload THEN @ + 1 ELSE @]

\* lines 128-130: the flag is reset and the script starts again
RerunLogic(ss) == [ss EXCEPT !.clear_flag = FALSE]

\* lines 143-151: the input mode was switched
SwitchReset(ss, option) ==
    [ss EXCEPT !.sequences = <<>>,
               !.uploaded_file_name = None,
               !.seq_input = <<>>,
               !.current_option = option,
               !.file_uploader_key = @ + 1]

\* lines 156-205 and the results section, in a pass that reaches them.
\* file is what the uploader of the current key holds, typed what the text
\* area returns, said what a callback wrote before the script ran.
InputAndResults(ss, option, file, typed, said) ==
    LET up == IF file # {} THEN ProcessUpload(CHOOSE f \in file : TRUE, ss)
              ELSE NoUpload(ss)
        ss2 == IF option = Upload
               THEN [ss EXCEPT !.sequences = up.sequences,
                               !.uploaded_file_name = up.uploaded_file_name]
               ELSE [ss EXCEPT !.seq_input = typed]
    IN  [ss |-> ss2,
         file |-> file,
         messages |-> said \o (IF option = Upload THEN up.said ELSE <<>>),
         page |-> results_section(ss2.sequences, ss2.uploaded_file_name)]

\* one run of the script, its st.rerun() restarts included: a restart drops
\* what was written so far, and finds the uploader of a new key empty
ScriptRun(ss, option, file, typed, said) ==
    IF ss.clear_flag
    THEN InputAndResults(RerunLogic(ss), option, file, RerunLogic(ss).seq_input, <<>>)
    ELSE IF option # ss.current_option
    THEN InputAndResults(SwitchReset(ss, option), option, {}, <<>>, <<>>)
    ELSE InputAndResults(ss, option, file, typed, said)

\* the variables after a run
Becomes(run, event) ==
    /\ seq_input' = run.ss.seq_input
    /\ sequences' = run.ss.sequences
    /\ uploaded_file_name' = run.ss.uploaded_file_name
    /\ clear_flag' = run.ss.clear_flag
    /\ file_uploader_key' = run.ss.file_uploader_key
    /\ current_option' = run.ss.current_option
    /\ uploaded_file' = run.file
    /\ messages' = run.messages
    /\ page' = run.page
    /\ last_event' = event
    /\ UNCHANGED libVars

(***************************************************************************)
(* Inputs: texts are lines (or fragments) joined by line breaks.           *)
(***************************************************************************)
RECURSIVE JoinLines(_)
JoinLines(ls) ==
    IF Len(ls) = 1 THEN ls[1] ELSE ls[1] \o <<"\n">> \o JoinLines(Tail(ls))

TextsOf(pieces, n) ==
    {JoinLines(ls) : ls \in UNION {[1..k -> pieces] : k \in 1..n}}

RECURSIVE JoinCommas(_)
JoinCommas(ps) ==
    IF Len(ps) = 1 THEN ps[1] ELSE ps[1] \o <<",">> \o JoinCommas(Tail(ps))

ListsOf(pieces, n) ==
    {JoinCommas(ps) : ps \in UNION {[1..k -> pieces] : k \in 1..n}}

ListPieces ==
    { <<"A", "T", "G", "C">>,
      <<" ", "G", "G", "C", "C">>,
      <<" ", "X", "Y", "Z">>,
      <<>>,                            \* nothing between two commas
      <<" ">>,                         \* a blank piece
      <<"a", "\n", "t">>,              \* a line break inside
      <<"g", " ", "c", " ">>,          \* spaces inside and after
      <<"A", "\t", "T">> }             \* a tab inside

ListTexts == ListsOf(ListPieces, MaxPieces)

FastaLines ==
    { <<">", "s", " ", "x">>,      \* header with a description
      <<">">>,                     \* header without a name
      <<" ", ">", "t">>,           \* indented header
      <<>>,                        \* blank line
      <<"A">>,
      <<"g", " ", "C">>,           \* lower case, a space inside
      <<"X", " ">>,                \* not a base, trailing space
      <<"A", "\t", "T">> }         \* a tab inside

FastaTexts == TextsOf(FastaLines, MaxLines)

DnaStrings == UNION {[1..k -> ATGC] : k \in 0..MaxSeqLen}

(***************************************************************************)
(* A call of one library function.                                         *)
(***************************************************************************)
\* the app's variables play no part in it
AppIdle ==
    /\ seq_input = <<>>
    /\ sequences = <<>>
    /\ uploaded_file_name = None
    /\ clear_flag = FALSE
    /\ file_uploader_key = 0
    /\ current_option = Upload
    /\ uploaded_file = {}
    /\ messages = <<>>
    /\ page = AboutPage
    /\ last_event = "start"

InitGc == AppIdle /\ pc = "call" /\ arg \in DnaStrings /\ ret = None

CallGcContent ==
    /\ pc = "call"
    /\ ret' = gc_content(arg)
    /\ pc' = "done"
    /\ UNCHANGED <<arg, appVars>>

SpecGc == InitGc /\ [][CallGcContent]_vars

InitParse == AppIdle /\ pc = "call" /\ arg \in FastaTexts /\ ret = None

CallParseFasta ==
    /\ pc = "call"
    /\ ret' = parse_fasta(arg)
    /\ pc' = "done"
    /\ UNCHANGED <<arg, appVars>>

SpecParse == InitParse /\ [][CallParseFasta]_vars

InitSubmit == AppIdle /\ pc = "call" /\ arg \in ListTexts /\ ret = None

CallSubmitSequences ==
    /\ pc = "call"
    /\ ret' = submit_sequences(arg)
    /\ pc' = "done"
    /\ UNCHANGED <<arg, appVars>>

SpecSubmit == InitSubmit /\ [][CallSubmitSequences]_vars

InitCli ==
    /\ AppIdle
    /\ pc = "call"
    /\ arg \in [status : {"ok"}, text : FastaTexts, output : {"none", "writable", "unwritable"}]
                \cup [status : {"missing", "unreadable"}, text : {<<>>}, output : {"none"}]
    /\ ret = None

CallMain ==
    /\ pc = "call"
    /\ ret' = main(arg)
    /\ pc' = "done"
    /\ UNCHANGED <<arg, appVars>>

SpecCli == InitCli /\ [][CallMain]_vars

\* valid records as the session state holds them
ValidRecords ==
    { <<<<"a">>, <<"A", "A", "T", "T">>>>,
      <<<<"b">>, <<"G", "G", "C", "C">>>>,
      <<<<"c">>, <<"A", "T", "G">>>>,
      <<<<"d">>, <<"G">>>> }

FileNames == {"seqs.fasta"}

InitResults ==
    /\ AppIdle
    /\ pc = "call"
    /\ arg \in [sequences : UNION {[1..k -> ValidRecords] : k \in 0..MaxRecords},
                file_name : {None} \cup FileNames]
    /\ ret = None

CallResultsSection ==
    /\ pc = "call"
    /\ ret' = results_section(arg.sequences, arg.file_name)
    /\ pc' = "done"
    /\ UNCHANGED <<arg, appVars>>

SpecResults == InitResults /\ [][CallResultsSection]_vars

(***************************************************************************)
(* The app: one action per UI event, each followed by the script's run.    *)
(***************************************************************************)
AppFragments ==
    { <<">", "s", " ", "x", "\n", "g", " ", "C">>,    \* a valid record
      <<">", "t", "\n", "A", "X">>,                   \* a record with a bad base
      <<">", "u">>,                                   \* a header alone
      <<">", "c", "\n", "a", "T">>,                   \* another valid record
      <<"a", ",", " ", ",", "X">>,                    \* a list, a bad piece
      <<>> }

AppTexts == TextsOf(AppFragments, MaxFrags)

\* the UTF-8 bytes of a text
RECURSIVE encode(_)
encode(text) ==
    IF text = <<>> THEN <<>>
    ELSE LET n == ord(Head(text))
         IN  (IF n < 128 THEN <<n>> ELSE <<192 + (n \div 64), 128 + (n % 64)>>)
             \o encode(Tail(text))

\* byte strings appended to a text's bytes: an invalid byte, a cut-off
\* two-byte form, a complete two-byte form
Tails == { <<255>>, <<195>>, <<195, 169>> }

AppFiles ==
    [name : FileNames,
     bytes : {encode(t) : t \in AppTexts}
             \cup {encode(f) \o tail : f \in AppFragments, tail \in Tails}]

Init ==
    /\ seq_input = <<>>
    /\ sequences = <<>>
    /\ uploaded_file_name = None
    /\ clear_flag = FALSE
    /\ file_uploader_key = 0
    /\ current_option = Upload
    /\ uploaded_file = {}
    /\ messages = <<>>
    /\ page = AboutPage
    /\ last_event = "start"
    /\ pc = "app" /\ arg = None /\ ret = None

\* a file is dropped on the uploader (replacing the one it holds)
UploadFile(f) ==
    /\ current_option = Upload
    /\ Becomes(ScriptRun(SessionState, current_option, {f}, seq_input, <<>>), "upload")

\* the uploader's file is removed with its x button
RemoveFile ==
    /\ current_option = Upload
    /\ uploaded_file # {}
    /\ Becomes(ScriptRun(SessionState, current_option, {}, seq_input, <<>>), "remove")

\* the text area's content is replaced, extended by a line, or erased
EditText(t) ==
    /\ current_option = Paste
    /\ t # seq_input
    /\ Becomes(ScriptRun(SessionState, current_option, uploaded_file, t, <<>>), "edit")

\* Submit Sequences: the callback, then the script
Submit ==
    /\ current_option = Paste
    /\ LET cb == submit_sequences(seq_input)
           ss == [SessionState EXCEPT !.sequences = cb.sequences,
                                      !.uploaded_file_name = cb.uploaded_file_name]
       IN  Becomes(ScriptRun(ss, current_option, uploaded_file, seq_input, cb.said), "submit")

\* Clear Sequences: the callback, then the script, which restarts once
ClearSequences ==
    /\ current_option = Upload
    /\ file_uploader_key < MaxKey
    /\ LET ss == trigger_clear_sequences(SessionState)
       IN  Becomes(ScriptRun(ss, current_option, {}, seq_input, <<>>), "clear")

\* the radio button is set to the other input mode
SwitchMode ==
    /\ file_uploader_key < MaxKey
    /\ LET option == IF current_option = Upload THEN Paste ELSE Upload
       IN  Becomes(ScriptRun(SessionState, option, uploaded_file, seq_input, <<>>), "switch")

\* the theme is changed in the sidebar: the script runs again as it is
ChangeTheme ==
    /\ Becomes(ScriptRun(SessionState, current_option, uploaded_file, seq_input, <<>>), "theme")

Next ==
    \/ \E f \in AppFiles : UploadFile(f)
    \/ RemoveFile
    \/ \E t \in AppFragments \cup {seq_input \o <<"\n">> \o f : f \in AppFragments} :
            /\ t \in AppTexts \cup {<<>>}
            /\ EditText(t)
    \/ Submit
    \/ ClearSequences
    \/ SwitchMode
    \/ ChangeTheme

Spec == Init /\ [][Next]_vars

(***************************************************************************)
(* Properties.                                                             *)
(***************************************************************************)
\* the positions of s that hold a G or a C
GcPositions(s) == {i \in 1..Len(s) : s[i] = "G" \/ s[i] = "C"}

(***************************************************************************)
(* C1: gc_content is total: for a string over {A,T,G,C} it returns 0 when  *)
(* the string is empty and 100 * (number of G and C) / length otherwise,   *)
(* a value between 0 and 100.                                              *)
(***************************************************************************)
C1_GcContentIsReferenceRatio ==
    pc = "done" =>
        /\ ret[2] > 0
        /\ arg = <<>> => ret = <<0, 1>>
        /\ arg # <<>> => ret[1] * Len(arg) = 100 * Cardinality(GcPositions(arg)) * ret[2]
        /\ 0 <= ret[1] /\ ret[1] <= 100 * ret[2]

\* gc_content has returned 50 for "GACT"
C1_Witness ==
    /\ pc = "done"
    /\ arg = <<"G", "A", "C", "T">>
    /\ ret = <<50, 1>>

\* a FASTA text read line by line: header lines, sequence lines, blocks
RawLines(text) == split(text, "\n")

IsHeaderLine(l) == startswith(strip(l), ">")

IsSequenceLine(l) == strip(l) # <<>> /\ ~IsHeaderLine(l)

HeaderHasName(l) == strip(Tail(strip(l))) # <<>>

\* the lines that belong to the header at line h: up to the next header
BlockOf(ls, h) ==
    {j \in (h + 1)..Len(ls) : \A k \in (h + 1)..j : ~IsHeaderLine(ls[k])}

RECURSIVE BlockBases(_, _, _)
\* the sequence lines of the block of h from line j on, spaces removed, joined
BlockBases(ls, h, j) ==
    IF j \notin BlockOf(ls, h) THEN <<>>
    ELSE (IF IsSequenceLine(ls[j]) THEN remove(strip(ls[j]), " ") ELSE <<>>)
         \o BlockBases(ls, h, j + 1)

\* the first whitespace-delimited token after '>' on a header line
HeaderToken(l) == TakeWord(lstrip(Tail(strip(l))))

RECURSIVE ExpectedRecords(_, _)
\* the records the headers at lines h, h+1, ... stand for
ExpectedRecords(ls, h) ==
    IF h > Len(ls) THEN <<>>
    ELSE (IF /\ IsHeaderLine(ls[h])
             /\ HeaderHasName(ls[h])
             /\ \E j \in BlockOf(ls, h) : IsSequenceLine(ls[j])
          THEN << <<HeaderToken(ls[h]), upper(BlockBases(ls, h, h + 1))>> >>
          ELSE <<>>)
         \o ExpectedRecords(ls, h + 1)

\* their bases
ExpectedBases(ls) ==
    LET recs == ExpectedRecords(ls, 1) IN [k \in 1..Len(recs) |-> recs[k][2]]

(***************************************************************************)
(* C2: parse_fasta returns, in input order, one record per header line     *)
(* that has a name and at least one non-blank sequence line before the     *)
(* next header or the end; its bases are those lines, spaces removed,      *)
(* joined and upper-cased; blank lines end no record; a header without     *)
(* sequence lines and the empty text give no record; nothing is raised.    *)
(***************************************************************************)
C2_ParseFastaRecords ==
    pc = "done" =>
        /\ [k \in 1..Len(ret) |-> ret[k][2]] = ExpectedBases(RawLines(arg))
        /\ \A k \in 1..Len(ret) : ret[k][1] # IndexError /\ ret[k][2] # <<>>

\* a record of two sequence lines with a blank line between them
C2_Witness ==
    /\ pc = "done"
    /\ arg = <<">", "s", " ", "x", "\n", "A", "\n", "\n", "g", " ", "C">>
    /\ ret = << << <<"s">>, <<"A", "G", "C">> >> >>

(***************************************************************************)
(* The last run of the app: what it parsed and what it reported.           *)
(***************************************************************************)
IsValid(rec) == rec[2] # <<>> /\ all_ATGC(rec[2])

TheFile == CHOOSE f \in uploaded_file : TRUE

\* the last run parsed an uploaded file that decoded
ParsedUpload == last_event = "upload" /\ ~Raised(decode(TheFile.bytes))

\* the last run followed Submit Sequences
ParsedSubmit == last_event = "submit"

PastedFasta == startswith(strip(seq_input), ">")

\* the messages about invalid characters among ms, by what they name
InvalidReports(ms) ==
    LET hits == SelectSeq(ms, LAMBDA m : m.text \in
                    { InvalidInSequence(<<>>).text, InvalidInSequenceNo(1).text,
                      SkippedInvalid(<<>>).text })
    IN  [k \in 1..Len(hits) |-> hits[k].about]

(***************************************************************************)
(* C3: for FASTA input, pasted and submitted or uploaded, the name of      *)
(* every resulting record is the first whitespace-delimited token after    *)
(* '>' on its header line, character for character.                        *)
(***************************************************************************)
C3_NameIsFirstHeaderToken ==
    /\ ParsedUpload =>
            sequences = SelectSeq(ExpectedRecords(RawLines(decode(TheFile.bytes)), 1), IsValid)
    /\ ParsedSubmit /\ PastedFasta =>
            \A k \in 1..Len(sequences) :
                \E l \in {RawLines(seq_input)[i] : i \in 1..Len(RawLines(seq_input))} :
                    IsHeaderLine(l) /\ sequences[k][1] = HeaderToken(l)

\* the same for the upload path alone
C3_UploadedNameIsFirstHeaderToken ==
    ParsedUpload =>
        sequences = SelectSeq(ExpectedRecords(RawLines(decode(TheFile.bytes)), 1), IsValid)

\* the records the last run's parser produced
ParserRecords ==
    IF last_event = "upload" THEN parse_fasta(decode(TheFile.bytes))
    ELSE SubmittedRecords(seq_input)

\* what a message about record k of the parser's output names
ReportedAs(recs, k) ==
    IF last_event = "submit" /\ ~PastedFasta THEN str(k) ELSE recs[k][1]

RECURSIVE ExpectedReports(_, _)
\* what the messages name when each invalid record from k on is reported once
ExpectedReports(recs, k) ==
    IF k > Len(recs) THEN <<>>
    ELSE (IF IsValid(recs[k]) THEN <<>> ELSE <<ReportedAs(recs, k)>>)
         \o ExpectedReports(recs, k + 1)

(***************************************************************************)
(* C5: after an upload or a submit, every record the parser produced is    *)
(* either in the valid list, iff its bases are non-empty and all in        *)
(* {A,T,G,C}, or named by one invalid-characters message; none is dropped  *)
(* without a message, and the valid list keeps the parser's order.         *)
(***************************************************************************)
C5_ValidOrReported ==
    ParsedUpload \/ ParsedSubmit =>
        /\ sequences = SelectSeq(ParserRecords, IsValid)
        /\ InvalidReports(messages) = ExpectedReports(ParserRecords, 1)

\* an upload of two records, one valid and one reported
C5_Witness ==
    /\ ParsedUpload
    /\ Len(ParserRecords) = 2
    /\ Len(sequences) = 1
    /\ Len(InvalidReports(messages)) = 1

\* an upload of two different valid records
C5_WitnessOrder ==
    /\ ParsedUpload
    /\ sequences = << << <<"c">>, <<"A", "T">> >>, << <<"s">>, <<"G", "C">> >> >>

\* a submitted list with one valid piece and one reported
C5_WitnessSubmit ==
    /\ ParsedSubmit
    /\ ~PastedFasta
    /\ sequences = << <<SequenceName(1), <<"A">>>> >>
    /\ InvalidReports(messages) = <<str(2)>>

(***************************************************************************)
(* C6: uploading a file whose decoded content is a FASTA text and pasting  *)
(* then submitting that text leave the same valid records in               *)
(* st.session_state.sequences and report the same records as invalid.      *)
(***************************************************************************)
C6_UploadEqualsPaste ==
    ParsedSubmit /\ PastedFasta =>
        LET up == ProcessUpload([name |-> "seqs.fasta", bytes |-> encode(seq_input)],
                                SessionState)
        IN  /\ sequences = up.sequences
            /\ InvalidReports(messages) = InvalidReports(up.said)

\* the run wrote that there is no valid sequence
SaysNoValidSequences ==
    \/ \E k \in 1..Len(messages) : messages[k] = NoValidInFile
    \/ \E k \in 1..Len(page.said) : page.said[k] = ErrorAllSkipped

(***************************************************************************)
(* C8: when an input is parsed but yields no valid record, on the upload   *)
(* path or on the submit path, the run tells the user that there is no     *)
(* valid sequence.                                                         *)
(***************************************************************************)
C8_NoValidSequencesSurfaced ==
    (ParsedUpload \/ ParsedSubmit) /\ sequences = <<>> => SaysNoValidSequences

\* the same for the upload path alone
C8_UploadNoValidSequencesSurfaced ==
    ParsedUpload /\ sequences = <<>> => SaysNoValidSequences

(***************************************************************************)
(* C9: while the uploader holds a file whose bytes are not UTF-8, the run  *)
(* reports the failure in one error message, st.session_state.sequences is *)
(* empty and uploaded_file_name is None, and nothing is analysed.          *)
(***************************************************************************)
C9_DecodeFailureReportedOnce ==
    \A f \in uploaded_file :
        Raised(decode(f.bytes)) =>
            /\ Len(SelectSeq(messages, LAMBDA m : m = ErrorProcessingFile)) = 1
            /\ sequences = <<>>
            /\ uploaded_file_name = None
            /\ page.results = <<>>
            /\ page.view = "about"

\* an upload that starts as FASTA and does not decode
C9_Witness ==
    /\ last_event = "upload"
    /\ Raised(decode(TheFile.bytes))
    /\ TheFile.bytes[1] = 62
    /\ messages = <<ErrorProcessingFile>>
    /\ sequences = <<>>

\* a piece with all its whitespace removed
Squeezed(piece) == SelectSeq(piece, LAMBDA c : c \notin Whitespace)

\* the numbered pieces with all whitespace stripped (upper-cased as bases are)
StatedPieces(input) ==
    LET kept == SelectSeq(split(upper(strip(input)), ","), LAMBDA q : strip(q) # <<>>)
    IN  [k \in 1..Len(kept) |-> <<SequenceName(k), Squeezed(kept[k])>>]

(***************************************************************************)
(* C4: for pasted text that does not start with '>', submit_sequences      *)
(* splits at ',', strips all whitespace from each piece, drops the pieces  *)
(* empty after trimming, and names the k-th piece left Sequence_k; the     *)
(* valid ones are the valid records, each other one is reported once.      *)
(***************************************************************************)
C4_ListPiecesNumbered ==
    pc = "done" =>
        /\ ret.sequences = SelectSeq(StatedPieces(arg), IsValid)
        /\ Len(ret.said) = Len(StatedPieces(arg)) - Len(ret.sequences)

\* the same with the code's stripping: whitespace at the ends, spaces and
\* line breaks inside
CodePieces(input) ==
    LET kept == SelectSeq(split(upper(strip(input)), ","), LAMBDA q : strip(q) # <<>>)
    IN  [k \in 1..Len(kept) |->
            <<SequenceName(k),
              SelectSeq(strip(kept[k]), LAMBDA c : c \notin {" ", "\n"})>>]

C4_ListPiecesNumberedAsCoded ==
    pc = "done" =>
        /\ ret.sequences = SelectSeq(CodePieces(arg), IsValid)
        /\ Len(ret.said) = Len(CodePieces(arg)) - Len(ret.sequences)

\* the example "ATGC, GGCC, XYZ"
C4_Example ==
    pc = "done" /\ arg = JoinCommas(<< <<"A", "T", "G", "C">>, <<" ", "G", "G", "C", "C">>,
                                       <<" ", "X", "Y", "Z">> >>)
        => /\ ret.sequences = << <<SequenceName(1), <<"A", "T", "G", "C">>>>,
                                 <<SequenceName(2), <<"G", "G", "C", "C">>>> >>
           /\ ret.said = <<InvalidInSequenceNo(3)>>

(***************************************************************************)
(* C10: in main(), a record whose bases hold a character outside {A,T,G,C} *)
(* is reported by a warning that names it and is left out of the results,  *)
(* the CSV and the minimum, maximum and average.                           *)
(***************************************************************************)
C10_InvalidRecordsExcluded ==
    pc = "done" /\ arg.status = "ok" =>
        LET seqs == read_sequences(arg.text)
            valid == {i \in 1..Len(seqs) : all_ATGC(seqs[i][2])}
        IN  /\ \A i \in 1..Len(seqs) \ valid :
                    \E k \in 1..Len(ret.printed) :
                        ret.printed[k] = WarningInvalid(NameOf(seqs[i][1], i))
            /\ Len(ret.results) = Cardinality(valid)
            /\ \A k \in 1..Len(ret.results) :
                    \E i \in valid : ret.results[k].name = NameOf(seqs[i][1], i)

\* the warning alone
C10_InvalidRecordsWarned ==
    pc = "done" /\ arg.status = "ok" =>
        LET seqs == read_sequences(arg.text)
        IN  \A i \in 1..Len(seqs) :
                ~all_ATGC(seqs[i][2]) =>
                    \E k \in 1..Len(ret.printed) :
                        ret.printed[k] = WarningInvalid(NameOf(seqs[i][1], i))

(***************************************************************************)
(* C7: the results section gives one row (name, length, gc) per valid      *)
(* record, in order, with length the number of bases and gc the record's   *)
(* gc_content; with a row or more the summary is the minimum, maximum and  *)
(* arithmetic mean of the rows' gc (so min <= avg <= max); with no row no  *)
(* summary is computed and the page reports that there is nothing to show. *)
(***************************************************************************)
C7_ResultsAndSummary ==
    pc = "done" =>
        LET seqs == arg.sequences
            rows == ret.results
            n == Len(rows)
        IN  /\ n = Len(seqs)
            /\ \A k \in 1..n :
                    /\ rows[k].name = seqs[k][1]
                    /\ rows[k].length = Len(seqs[k][2])
                    /\ rows[k].gc = gc_content(seqs[k][2])
            /\ n > 0 =>
                    /\ ret.view = "results"
                    /\ Len(ret.stats) = 1
                    /\ LET st == ret.stats[1]
                       IN  /\ \E k \in 1..n : st.min_gc = rows[k].gc
                           /\ \E k \in 1..n : st.max_gc = rows[k].gc
                           /\ \A k \in 1..n : RatLe(st.min_gc, rows[k].gc)
                                              /\ RatLe(rows[k].gc, st.max_gc)
                           /\ RatDiv(sum([k \in 1..n |-> rows[k].gc]), n) = st.avg_gc
                           /\ RatLe(st.min_gc, st.avg_gc) /\ RatLe(st.avg_gc, st.max_gc)
            /\ n = 0 =>
                    /\ ret.stats = <<>>
                    /\ ret.view \in {"about", "no_results"}
                    /\ ret.said # <<>>

\* the rows of AATT and GGCC: 0, 100 and their mean 50
C7_Witness ==
    /\ pc = "done"
    /\ arg.sequences = << <<<<"a">>, <<"A", "A", "T", "T">>>>, <<<<"b">>, <<"G", "G", "C", "C">>>> >>
    /\ ret.stats = <<[min_gc |-> <<0, 1>>, max_gc |-> <<100, 1>>, avg_gc |-> <<50, 1>>]>>

\* an uploaded file without a valid record: no rows
C7_WitnessNoRows ==
    /\ pc = "done"
    /\ arg.sequences = <<>>
    /\ arg.file_name # None
    /\ ret.view = "no_results"

(***************************************************************************)
(* C11: after any sequence of UI events (a file uploaded, the uploaded     *)
(* file removed, Submit Sequences, Clear Sequences, a switch of the input  *)
(* mode), every (name, bases) pair in st.session_state.sequences has       *)
(* non-empty bases made of A, T, G, C only; the results section therefore  *)
(* skips none of them and calls gc_content on valid upper-case bases only. *)
(***************************************************************************)
C11_SequencesAreValidDna ==
    /\ \A i \in 1..Len(sequences) :
            /\ sequences[i][2] # <<>>
            /\ all_ATGC(sequences[i][2])
    /\ Len(page.results) = Len(sequences)
    /\ \A k \in 1..Len(page.results) :
            /\ page.results[k].length = Len(sequences[k][2])
            /\ page.results[k].gc = gc_content(sequences[k][2])

\* an upload whose parser found a record with a bad base next to a valid
\* one typed in lower case: the first is left out, the second held as AT
C11_Witness ==
    /\ last_event = "upload"
    /\ ~Raised(decode(TheFile.bytes))
    /\ \E k \in 1..Len(ParserRecords) : ~IsValid(ParserRecords[k])
    /\ sequences = << << <<"c">>, <<"A", "T">> >> >>
    /\ Len(page.results) = 1

\* a submitted text with a bad record or piece next to a valid one
C11_WitnessSubmit ==
    /\ last_event = "submit"
    /\ \E k \in 1..Len(ParserRecords) : ~IsValid(ParserRecords[k])
    /\ sequences # <<>>

\* records submitted earlier are still held while the text area, edited
\* since, holds a text that would yield a bad record
C11_WitnessKept ==
    /\ last_event = "edit"
    /\ sequences # <<>>
    /\ \E k \in 1..Len(SubmittedRecords(seq_input)) :
            ~IsValid(SubmittedRecords(seq_input)[k])

====
